---- MODULE Spec2Model ----
(***************************************************************************)
(* Reference-counted resource caches of the AI chat feature:               *)
(*   DisposableRefCounter, DisposableMutableResource,                      *)
(*   UpdatableReferenceResource and AIVariableResourceResolver             *)
(*   (ai-core/src/common/ai-variable-resource) and                         *)
(*   ChangeSetFileResourceResolver (ai-chat/src/browser/                   *)
(*   change-set-file-resource); next to them the session summary variable  *)
(*   (SessionSumaryVariableContribution, ChatSessionSummaryAgent) and the  *)
(*   frontend variable service (DefaultFrontendVariableService,            *)
(*   AIVariableCompletionContext).                                         *)
(*                                                                         *)
(* Objects live in three heaps, each a sequence indexed by allocation      *)
(* order: `resources' (DisposableMutableResource), `counters'              *)
(* (DisposableRefCounter) and `reference' (UpdatableReferenceResource,     *)
(* whose only field is the counter it wraps).  add() and get() allocate    *)
(* one object of each kind, so counter i always wraps resource i.          *)
(*                                                                         *)
(* The specifications share the actions:                                   *)
(*   Spec          the registry over two URIs: add, resolve, tryGet,       *)
(*                 update and dispose;                                     *)
(*   ContentSpec   one URI with every call on its handle: update of the    *)
(*                 payload and of the save callback, readContents and the  *)
(*                 two halves of the asynchronous saveContents;            *)
(*   FlagsSpec     one holder under every combination of registration      *)
(*                 options, with its getters;                              *)
(*   ConsumerSpec  two consumers sharing one URI;                          *)
(*   ReuseSpec     one URI registered again after its release, with calls  *)
(*                 on the handles of the holders torn down before;         *)
(*   PendingSpec   disposes that overtake a pending save or a pending      *)
(*                 variable resolution;                                    *)
(*   VariableSpec  one variable request in both kinds of context: get,     *)
(*                 resolve, dispose and the settling of the resolutions;   *)
(*   SharingSpec   two variable requests in one shared context;            *)
(*   SummarySpec   one chat session, resolve() calls for its summary and   *)
(*                 the steps of the summary agent;                         *)
(*   DropSpec      drop handlers registered and removed around             *)
(*                 getDropResult() calls;                                  *)
(*   CompletionSpec  one call of AIVariableCompletionContext.get on every  *)
(*                 line and cursor position.                               *)
(* `ret' and `fired' record what the last call returned and how often it   *)
(* fired the change event; `hist' counts calls per counter.                *)
(***************************************************************************)
EXTENDS Integers, Sequences, FiniteSets, TLC

\* ---------------------------------------------------------------- bounds
MaxHolders == 2      \* successful add() calls in one behaviour of Spec
MaxContentHolders == 1   \* successful add() calls in one behaviour of ContentSpec
MaxRefs == 2         \* resolve()/tryGet() is not called on a counter holding MaxRefs references
MaxSurplus == 1      \* dispose() calls accepted, in one behaviour, from a consumer holding no handle
MaxSaves == 1        \* saveContents() calls suspended at the same time
MaxPendingHolders == 2   \* holders created by add() and get() in one behaviour of PendingSpec
MaxRequests == 2     \* requests added to one chat session
MaxSummaryCalls == 2 \* resolve() calls, in one behaviour, that reach the summary agent
MaxDrops == 2        \* getDropResult() calls in one behaviour
MaxInvocations == 2  \* handler calls made by one getDropResult() call
MaxLineLen == 4      \* characters of the line AIVariableCompletionContext.get reads

\* ---------------------------------------------------------------- inputs
Keys == {"u1", "u2"}           \* uri.toString() of the URIs used
Str == {"", "a"}               \* string contents
Callbacks == {"cb1"}           \* save callbacks
None == "none"                 \* JavaScript undefined
NoHandle == 0                  \* no UpdatableReferenceResource
Consumers == {"A", "B"}        \* the parties that obtain and dispose handles

\* A payload: a string, or a Promise<string> that fulfils with val; Undefined
\* is the contents field of an options object that has none.
StrPayload(s) == [kind |-> "string", val |-> s]
PromisePayload(s) == [kind |-> "promise", val |-> s]
Undefined == [kind |-> "undefined", val |-> ""]

\* An optional boolean field of an options object: absent, true or false.
Flag == {None, "true", "false"}

\* ResourceInitializationOptions.
InitOptions ==
    [contents : {Undefined} \cup {StrPayload(s) : s \in Str} \cup {PromisePayload("a")},
     onSave : {None} \cup Callbacks,
     readOnly : Flag,
     autosaveable : Flag,
     initiallyDirty : Flag]

\* The options that set none of the three flags.
Unflagged(IO) ==
    {o \in IO : o.readOnly = None /\ o.autosaveable = None /\ o.initiallyDirty = None}

\* ResourceUpdateOptions; hasOnSave is "'onSave' in options".
UpdateOptions ==
    {o \in [contents : {Undefined} \cup {StrPayload(s) : s \in Str},
            hasOnSave : BOOLEAN,
            onSave : {None} \cup Callbacks] : o.hasOnSave \/ o.onSave = None}

\* The chat sessions resolve() is asked about; "s0" is never created.
SessionIds == {"s1"}
UnknownSession == "s0"
NoSession == [state |-> "none", requests |-> 0]

\* No summary text, and the absence of an entry in the summaries map.
NoText == [from |-> 0, text |-> None]
NoEntry == [summary |-> NoText, length |-> 0]

\* What AIVariableCompletionContext.get returned: nothing while it was not
\* called, undefined, or a context.
NotCalled == [called |-> FALSE, defined |-> FALSE, userInput |-> <<>>, prefix |-> "", range |-> <<0, 0>>]
UndefinedContext == [NotCalled EXCEPT !.called = TRUE]
NoCompletion == [line |-> <<>>, column |-> 1, matchString |-> None, variableName |-> "v", out |-> NotCalled]

VARIABLES
    cache,        \* ChangeSetFileResourceResolver.cache: key -> handle or NoHandle
    reference,    \* UpdatableReferenceResource.reference, per handle
    counters,     \* DisposableRefCounter objects: refs and the onDispose closure's key
    resources,    \* DisposableMutableResource objects
    saves,        \* saveContents() calls suspended at their await
    ret,          \* the last call and what it returned or threw
    fired,        \* onDidChangeContentsEmitter.fire() calls made by the last step
    hist,         \* per counter: the calls made on it so far (see NewHist)
    issued,       \* handles returned to callers so far
    varCache,     \* AIVariableResourceResolver.cache: entries [key, handle, context]
    resolving,    \* handles whose resolveVariable() promise is pending
    caller,       \* the consumer whose code makes the calls
    sessions,     \* ChatService: per session id, whether it exists and its requests
    summaries,    \* SessionSumaryVariableContribution.summaries
    calls,        \* resolve() calls of the contribution that reached the summary agent
    dropHandlers, \* DefaultFrontendVariableService.dropHandlers, in insertion order
    drops,        \* getDropResult() calls: iterator position and locals
    disposables,  \* handlers for which registerDropHandler() returned a Disposable
    completion    \* one call of AIVariableCompletionContext.get: arguments and result

summaryVars == <<sessions, summaries, calls>>
dropVars == <<dropHandlers, drops, disposables>>

vars == <<cache, reference, counters, resources, saves, ret, fired, hist, issued,
          varCache, resolving, caller, summaryVars, dropVars, completion>>

\* ------------------------------------------------- DisposableMutableResource

\* constructor(uri, options)
NewResource(k, o) ==
    [uri |-> k,
     options |-> [onSave |-> o.onSave, readOnly |-> o.readOnly,
                  autosaveable |-> o.autosaveable, initiallyDirty |-> o.initiallyDirty],
     onSave |-> o.onSave,
     contents |-> IF o.contents = Undefined THEN StrPayload("") ELSE o.contents,
     emitterDisposed |-> FALSE]

\* JavaScript !== between two payloads: strings compare by value, a promise
\* is identical only to itself (and no update passes the stored promise).
NotIdentical(a, b) == a.kind = "promise" \/ b.kind = "promise" \/ a.val # b.val

\* a guard that does not compare the new contents with the current ones
ContentsChangeUnconditional(res, o) == o.contents # Undefined

\* update(): the guard of the contents branch
ContentsChange(res, o) == o.contents # Undefined /\ NotIdentical(o.contents, res.contents)

\* update(): the guard of the onSave branch
OnSaveChange(res, o) == o.hasOnSave /\ o.onSave # res.onSave

\* update() that fires without storing the new contents
ResourceUpdateKeepsContents(res, o) ==
    [res EXCEPT !.onSave = IF OnSaveChange(res, o) THEN o.onSave ELSE @]

\* update() that takes an options object without onSave for one clearing it
ResourceUpdateReplacesAll(res, o) ==
    [res EXCEPT !.contents = IF ContentsChange(res, o) THEN o.contents ELSE @,
                !.onSave = o.onSave]

\* update(options): the resource afterwards
ResourceUpdate(res, o) ==
    [res EXCEPT !.contents = IF ContentsChange(res, o) THEN o.contents ELSE @,
                !.onSave = IF OnSaveChange(res, o) THEN o.onSave ELSE @]

\* update(options): number of fire() calls
UpdateFires(res, o) == IF ContentsChange(res, o) THEN 1 ELSE 0

\* saveContents() going through the onSave field instead of the options
SaveCallbackCurrent(res) == res.onSave

\* saveContents(): the callback it goes through, None when it is a no-op
SaveCallback(res) == res.options.onSave

\* get readOnly(): options.readOnly || !onSave
ReadOnly(res) == res.options.readOnly = "true" \/ res.onSave = None

\* a getter that takes an absent autosaveable option for false
AutosaveableOptIn(res) == res.options.autosaveable = "true"

\* get autosaveable(): options.autosaveable !== false
Autosaveable(res) == res.options.autosaveable # "false"

\* get initiallyDirty(): !!options.initiallyDirty
InitiallyDirty(res) == res.options.initiallyDirty = "true"

\* The string a payload stands for: itself, or what the promise fulfils with.
Fulfilled(p) == p.val

\* readContents(): the value the returned promise fulfils with
ReadValue(res) == Fulfilled(res.contents)

\* a dispose() that leaves the emitter as it is
ResourceDisposeKeepsEmitter(res) == res

\* dispose()
ResourceDispose(res) == [res EXCEPT !.emitterDisposed = TRUE]

\* Emitter: the listeners that n fire() calls reach; a disposed emitter has
\* no listener left.
Delivered(res, n) == IF res.emitterDisposed THEN 0 ELSE n

\* ------------------------------------------------------ DisposableRefCounter

\* acquire() that returns the item without counting the reference
RefsAfterAcquireForgets(n) == n

\* static acquire(item): refs++
RefsAfterAcquire(n) == n + 1

\* dispose(): refs--
RefsAfterDispose(n) == n - 1

\* a test that also holds below zero
RunsOnDisposeAtOrBelowZero(n) == n <= 0

\* dispose(): the condition under which onDispose() runs
RunsOnDispose(n) == n = 0

\* create() that returns the new counter without acquiring it
NewCounterUnacquired(k) == [key |-> k, refs |-> 0]

\* static create(value, onDispose): refs starts at 0 and is acquired once
NewCounter(k) == [key |-> k, refs |-> RefsAfterAcquire(0)]

\* The history of a counter that add() has just created with options o:
\*   balance   = 1 + successful resolve()/tryGet() calls - dispose() calls
\*   teardowns = runs of its onDispose closure
\*   written   = the string last written to its resource by the registration,
\*               an update() that supplied contents, or a completed save
\*   holds     = per consumer, the handles it obtained and has not disposed
\*   got       = the consumers that obtained a handle
NewHist(o) ==
    [balance |-> 1,
     teardowns |-> 0,
     written |-> IF o.contents = Undefined THEN "" ELSE Fulfilled(o.contents),
     holds |-> [p \in Consumers |-> IF p = caller THEN 1 ELSE 0],
     got |-> {caller}]

\* The history after the caller obtained one more handle of the counter.
HistAcquire(hc) ==
    [hc EXCEPT !.balance = @ + 1, !.holds[caller] = @ + 1, !.got = @ \cup {caller}]

\* The history after the caller disposed a handle of the counter: it gives
\* up one it holds, or repeats a dispose when it holds none.
HistDispose(hc) ==
    [hc EXCEPT !.balance = @ - 1, !.holds[caller] = IF @ > 0 THEN @ - 1 ELSE @]

\* The history after a call of update(o) on the counter's resource.
HistUpdate(hc, o) == [hc EXCEPT !.written = IF o.contents = Undefined THEN @ ELSE Fulfilled(o.contents)]

\* The options object update(uri, contents) and saveContents() build: { contents }
ContentsOnly(x) == [contents |-> StrPayload(x), hasOnSave |-> FALSE, onSave |-> None]

\* No save callback invocation.
NoCall == [cb |-> None, x |-> None]

\* What a call did as seen by its caller: the handle or value it returned
\* (result "ok"), an exception ("error"), undefined, or a promise that is
\* still pending; `called' is the save callback invocation it made.
Result(op, h, r, v) ==
    [op |-> op, handle |-> h, result |-> r, value |-> v, called |-> NoCall]

\* Totals over all counters: the dispose() calls made so far by consumers
\* that held no handle of the counter they disposed.
RECURSIVE SumOver(_, _)
SumOver(f, i) == IF i = 0 THEN 0 ELSE f[i] + SumOver(f, i - 1)
RECURSIVE SumHolds(_, _)
SumHolds(f, S) ==
    IF S = {} THEN 0 ELSE LET p == CHOOSE q \in S : TRUE IN f[p] + SumHolds(f, S \ {p})
TotalSurplus ==
    SumOver([i \in DOMAIN counters |-> SumHolds(hist[i].holds, Consumers) - counters[i].refs],
            Len(counters))

\* static acquire(resource): the handle it returns
AcquiredHandle(h) == h

\* a closure that disposes the resource and leaves the cache entry behind
CacheDeleteNothing(m, k) == m

\* The closure add() passes to DisposableRefCounter.create: this.cache.delete(key)
CacheDelete(m, k) == [m EXCEPT ![k] = NoHandle]

\* The closure get() passes to DisposableRefCounter.create: this.cache.delete(key)
VarCacheDelete(m, k) == {e \in m : e.key # k}

\* The suspended calls without the i-th.
Remove(q, i) == [j \in 1..(Len(q) - 1) |-> IF j < i THEN q[j] ELSE q[j + 1]]

Init ==
    /\ cache = [k \in Keys |-> NoHandle]
    /\ reference = <<>>
    /\ counters = <<>>
    /\ resources = <<>>
    /\ saves = <<>>
    /\ ret = Result("init", NoHandle, "ok", None)
    /\ fired = 0
    /\ hist = <<>>
    /\ issued = {}
    /\ varCache = {}
    /\ resolving = {}
    /\ caller = "A"
    /\ sessions = [s \in SessionIds |-> NoSession]
    /\ summaries = [s \in SessionIds |-> NoEntry]
    /\ calls = <<>>
    /\ dropHandlers = <<>>
    /\ drops = <<>>
    /\ disposables = {}
    /\ completion = NoCompletion

\* ------------------------------------------- ChangeSetFileResourceResolver

\* add(uri, options) past its check: a resource, its counter and its handle
Register(k, o) ==
    /\ resources' = Append(resources, NewResource(k, o))
    /\ counters' = Append(counters, NewCounter(k))
    /\ hist' = Append(hist, NewHist(o))
    /\ reference' = Append(reference, Len(counters) + 1)
    /\ cache' = [cache EXCEPT ![k] = Len(reference) + 1]
    /\ issued' = issued \cup {Len(reference) + 1}
    /\ ret' = Result("add", Len(reference) + 1, "ok", None)
    /\ fired' = 0
    /\ UNCHANGED saves
    /\ UNCHANGED <<varCache, resolving, caller, summaryVars, dropVars, completion>>

\* add() without the has(key) check: the new entry replaces the cached one
AddDuplicateOverwrites(k, o) ==
    cache[k] # NoHandle /\ Len(counters) < MaxHolders /\ Register(k, o)

\* add(uri, options) when the key is cached: throws
AddDuplicate(k, o) ==
    /\ cache[k] # NoHandle
    /\ ret' = Result("add", NoHandle, "error", None)
    /\ fired' = 0
    /\ UNCHANGED <<cache, reference, counters, resources, saves, hist, issued>>
    /\ UNCHANGED <<varCache, resolving, caller, summaryVars, dropVars, completion>>

\* add(uri, options) when the key is free
AddNew(k, o) == cache[k] = NoHandle /\ Register(k, o)

\* add(uri, options), called while fewer than maxHolders holders were created
Add(k, o, maxHolders) == AddDuplicate(k, o) \/ (Len(counters) < maxHolders /\ AddNew(k, o))

\* resolve(uri) / tryGet(uri) on a cached key: UpdatableReferenceResource.acquire
AcquireCached(op, k) ==
    /\ cache[k] # NoHandle
    /\ LET c == reference[cache[k]] IN
        /\ counters[c].refs < MaxRefs
        /\ counters' = [counters EXCEPT ![c].refs = RefsAfterAcquire(@)]
        /\ hist' = [hist EXCEPT ![c] = HistAcquire(@)]
    /\ issued' = issued \cup {AcquiredHandle(cache[k])}
    /\ ret' = Result(op, AcquiredHandle(cache[k]), "ok", None)
    /\ fired' = 0
    /\ UNCHANGED <<cache, reference, resources, saves>>
    /\ UNCHANGED <<varCache, resolving, caller, summaryVars, dropVars, completion>>

\* resolve(uri) on a key that is not cached: throws
ResolveUnknown(k) ==
    /\ cache[k] = NoHandle
    /\ ret' = Result("resolve", NoHandle, "error", None)
    /\ fired' = 0
    /\ UNCHANGED <<cache, reference, counters, resources, saves, hist, issued>>
    /\ UNCHANGED <<varCache, resolving, caller, summaryVars, dropVars, completion>>

Resolve(k) == AcquireCached("resolve", k) \/ ResolveUnknown(k)

\* tryGet() that lets the exception of resolve() through
TryGetUnknownThrows(k) ==
    /\ cache[k] = NoHandle
    /\ ret' = Result("tryGet", NoHandle, "error", None)
    /\ fired' = 0
    /\ UNCHANGED <<cache, reference, counters, resources, saves, hist, issued>>
    /\ UNCHANGED <<varCache, resolving, caller, summaryVars, dropVars, completion>>

\* tryGet(uri) on a key that is not cached: catches and returns undefined
TryGetUnknown(k) ==
    /\ cache[k] = NoHandle
    /\ ret' = Result("tryGet", NoHandle, "undefined", None)
    /\ fired' = 0
    /\ UNCHANGED <<cache, reference, counters, resources, saves, hist, issued>>
    /\ UNCHANGED <<varCache, resolving, caller, summaryVars, dropVars, completion>>

TryGet(k) == AcquireCached("tryGet", k) \/ TryGetUnknown(k)

\* update(uri, contents) on a cached key
UpdateCached(k, x) ==
    /\ cache[k] # NoHandle
    /\ LET c == reference[cache[k]]
           o == ContentsOnly(x) IN
        /\ resources' = [resources EXCEPT ![c] = ResourceUpdate(@, o)]
        /\ fired' = UpdateFires(resources[c], o)
        /\ hist' = [hist EXCEPT ![c] = HistUpdate(@, o)]
    /\ ret' = Result("update", NoHandle, "ok", None)
    /\ UNCHANGED <<cache, reference, counters, saves, issued>>
    /\ UNCHANGED <<varCache, resolving, caller, summaryVars, dropVars, completion>>

\* update(uri, contents) on a key that is not cached: throws
UpdateUnknown(k, x) ==
    /\ cache[k] = NoHandle
    /\ ret' = Result("update", NoHandle, "error", None)
    /\ fired' = 0
    /\ UNCHANGED <<cache, reference, counters, resources, saves, hist, issued>>
    /\ UNCHANGED <<varCache, resolving, caller, summaryVars, dropVars, completion>>

Update(k, x) == UpdateCached(k, x) \/ UpdateUnknown(k, x)

\* ------------------------------------------------ UpdatableReferenceResource

\* dispose() on a handle the caller obtained; the last reference runs the
\* closure built by the resolver that created the counter
HandleDispose(h) ==
    /\ h \in issued
    /\ LET c == reference[h]
           n == RefsAfterDispose(counters[c].refs) IN
        /\ caller \in hist[c].got
        /\ hist[c].holds[caller] = 0 => TotalSurplus < MaxSurplus
        /\ counters' = [counters EXCEPT ![c].refs = n]
        /\ IF RunsOnDispose(n)
           THEN /\ resources' = [resources EXCEPT ![c] = ResourceDispose(@)]
                /\ IF counters[c].key \in Keys
                   THEN cache' = CacheDelete(cache, counters[c].key) /\ varCache' = varCache
                   ELSE varCache' = VarCacheDelete(varCache, counters[c].key) /\ cache' = cache
                /\ hist' = [hist EXCEPT ![c] = [HistDispose(@) EXCEPT !.teardowns = @ + 1]]
           ELSE /\ hist' = [hist EXCEPT ![c] = HistDispose(@)]
                /\ UNCHANGED <<resources, cache, varCache>>
    /\ ret' = Result("dispose", NoHandle, "ok", None)
    /\ fired' = 0
    /\ UNCHANGED <<reference, saves, issued, resolving, caller, summaryVars, dropVars, completion>>

\* update(options) on a handle
HandleUpdate(h, o) ==
    /\ h \in issued
    /\ LET c == reference[h] IN
        /\ resources' = [resources EXCEPT ![c] = ResourceUpdate(@, o)]
        /\ fired' = UpdateFires(resources[c], o)
        /\ hist' = [hist EXCEPT ![c] = HistUpdate(@, o)]
    /\ ret' = Result("handleUpdate", NoHandle, "ok", None)
    /\ UNCHANGED <<cache, reference, counters, saves, issued>>
    /\ UNCHANGED <<varCache, resolving, caller, summaryVars, dropVars, completion>>

\* readContents() on a handle
ReadContents(h) ==
    /\ h \in issued
    /\ ret' = Result("readContents", NoHandle, "ok", ReadValue(resources[reference[h]]))
    /\ fired' = 0
    /\ UNCHANGED <<cache, reference, counters, resources, saves, hist, issued>>
    /\ UNCHANGED <<varCache, resolving, caller, summaryVars, dropVars, completion>>

\* A boolean as the caller of a getter sees it.
Shown(b) == IF b THEN "true" ELSE "false"

\* A getter of a handle, which returns the value v and changes nothing.
Getter(op, h, v) ==
    /\ h \in issued
    /\ ret' = Result(op, NoHandle, "ok", v)
    /\ fired' = 0
    /\ UNCHANGED <<cache, reference, counters, resources, saves, hist, issued>>
    /\ UNCHANGED <<varCache, resolving, caller, summaryVars, dropVars, completion>>

\* get readOnly() on a handle
GetReadOnly(h) == Getter("readOnly", h, Shown(ReadOnly(resources[reference[h]])))

\* get autosaveable() on a handle
GetAutosaveable(h) == Getter("autosaveable", h, Shown(Autosaveable(resources[reference[h]])))

\* get initiallyDirty() on a handle
GetInitiallyDirty(h) == Getter("initiallyDirty", h, Shown(InitiallyDirty(resources[reference[h]])))

\* saveContents(x) without a save callback: returns at once
SaveNoCallback(h, x) ==
    /\ h \in issued
    /\ SaveCallback(resources[reference[h]]) = None
    /\ ret' = Result("saveContents", NoHandle, "ok", None)
    /\ fired' = 0
    /\ UNCHANGED <<cache, reference, counters, resources, saves, hist, issued>>
    /\ UNCHANGED <<varCache, resolving, caller, summaryVars, dropVars, completion>>

\* saveContents(x) with a save callback: calls it and suspends at the await
SaveStart(h, x) ==
    /\ h \in issued
    /\ Len(saves) < MaxSaves
    /\ LET res == resources[reference[h]] IN
        /\ SaveCallback(res) # None
        /\ saves' = Append(saves, [res |-> reference[h], x |-> x])
        /\ ret' = [Result("saveContents", NoHandle, "pending", None)
                      EXCEPT !.called = [cb |-> SaveCallback(res), x |-> x]]
    /\ fired' = 0
    /\ UNCHANGED <<cache, reference, counters, resources, hist, issued>>
    /\ UNCHANGED <<varCache, resolving, caller, summaryVars, dropVars, completion>>

SaveContents(h, x) == SaveNoCallback(h, x) \/ SaveStart(h, x)

\* the save callback's promise fulfils, and the payload of that moment stays
SaveCompleteKeepsPayload(i) ==
    /\ saves' = Remove(saves, i)
    /\ ret' = Result("saveDone", NoHandle, "ok", None)
    /\ fired' = 0
    /\ UNCHANGED <<cache, reference, counters, resources, hist, issued>>
    /\ UNCHANGED <<varCache, resolving, caller, summaryVars, dropVars, completion>>

\* the save callback's promise fulfils: this.update({ contents })
SaveComplete(i) ==
    /\ LET c == saves[i].res
           o == ContentsOnly(saves[i].x) IN
        /\ resources' = [resources EXCEPT ![c] = ResourceUpdate(@, o)]
        /\ fired' = UpdateFires(resources[c], o)
        /\ hist' = [hist EXCEPT ![c] = HistUpdate(@, o)]
    /\ saves' = Remove(saves, i)
    /\ ret' = Result("saveDone", NoHandle, "ok", None)
    /\ UNCHANGED <<cache, reference, counters, issued>>
    /\ UNCHANGED <<varCache, resolving, caller, summaryVars, dropVars, completion>>

\* the save callback's promise rejects, and the payload is replaced anyway
SaveFailStoresContents(i) ==
    /\ LET c == saves[i].res
           o == ContentsOnly(saves[i].x) IN
        /\ resources' = [resources EXCEPT ![c] = ResourceUpdate(@, o)]
        /\ fired' = UpdateFires(resources[c], o)
        /\ hist' = [hist EXCEPT ![c] = HistUpdate(@, o)]
    /\ saves' = Remove(saves, i)
    /\ ret' = Result("saveDone", NoHandle, "error", None)
    /\ UNCHANGED <<cache, reference, counters, issued>>
    /\ UNCHANGED <<varCache, resolving, caller, summaryVars, dropVars, completion>>

\* the save callback's promise rejects: saveContents() rejects
SaveFail(i) ==
    /\ saves' = Remove(saves, i)
    /\ ret' = Result("saveDone", NoHandle, "error", None)
    /\ fired' = 0
    /\ UNCHANGED <<cache, reference, counters, resources, hist, issued>>
    /\ UNCHANGED <<varCache, resolving, caller, summaryVars, dropVars, completion>>

\* ------------------------------------------------ AIVariableResourceResolver

Requests == {"r1", "r2"}       \* stableJsonStringify({arg, name}) of the requests used
OneRequest == {"r1"}           \* the request of the behaviours with a single variable
Contexts == {"{}", "c1"}       \* contexts up to deep equality; "{}" is the empty one
NoContextAuthority == "context-free"

\* generateUuid(): the n-th identifier generated
Uuid(n) == "uuid" \o ToString(n)

\* toUri(request, context).toString() for the authority a and the query q
VarUri(a, q) == "ai-variable://" \o a \o "/?" \o q

\* The authorities toAuthority() can return.
Authorities == {NoContextAuthority} \cup {Uuid(n) : n \in 1..MaxPendingHolders}

\* uri.authority of a cached resource
AuthorityOf(key) == CHOOSE a \in Authorities : \E q \in Requests : VarUri(a, q) = key

\* a toAuthority() that generates an identifier for every non-empty context
ToAuthorityAlwaysFresh(ctx) ==
    IF ctx = "{}" THEN NoContextAuthority ELSE Uuid(Len(counters) + 1)

\* toAuthority(context); a new holder is the object with the next index,
\* which numbers the identifier generated for it
ToAuthority(ctx) ==
    IF ctx = "{}" THEN NoContextAuthority
    ELSE IF \E e \in varCache : e.context = ctx
         THEN AuthorityOf((CHOOSE e \in varCache : e.context = ctx).key)
         ELSE Uuid(Len(counters) + 1)

\* cache.get(key), as the set of the entries found
VarLookup(key) == {e \in varCache : e.key = key}

\* The options get() constructs its resource with: { readOnly: true }
ReadOnlyOptions ==
    [contents |-> Undefined, onSave |-> None, readOnly |-> "true",
     autosaveable |-> None, initiallyDirty |-> None]

\* get(request, context) on a cached URI: tryGet() acquires the cached handle
GetCached(r, ctx) ==
    /\ VarLookup(VarUri(ToAuthority(ctx), r)) # {}
    /\ LET h == (CHOOSE e \in VarLookup(VarUri(ToAuthority(ctx), r)) : TRUE).handle
           c == reference[h] IN
        /\ counters[c].refs < MaxRefs
        /\ counters' = [counters EXCEPT ![c].refs = RefsAfterAcquire(@)]
        /\ hist' = [hist EXCEPT ![c] = HistAcquire(@)]
        /\ issued' = issued \cup {AcquiredHandle(h)}
        /\ ret' = Result("get", AcquiredHandle(h), "ok", None)
    /\ fired' = 0
    /\ UNCHANGED <<cache, reference, resources, saves, varCache, resolving, caller, summaryVars, dropVars, completion>>

\* get(request, context) on a URI that is not cached: a read-only resource,
\* its counter and handle, the cache entry, and the start of the resolution
GetNew(r, ctx) ==
    LET key == VarUri(ToAuthority(ctx), r) IN
        /\ VarLookup(key) = {}
        /\ resources' = Append(resources, NewResource(key, ReadOnlyOptions))
        /\ counters' = Append(counters, NewCounter(key))
        /\ hist' = Append(hist, NewHist(ReadOnlyOptions))
        /\ reference' = Append(reference, Len(counters) + 1)
        /\ varCache' = varCache \cup
               {[key |-> key, handle |-> Len(reference) + 1, context |-> ctx]}
        /\ resolving' = resolving \cup {Len(reference) + 1}
        /\ issued' = issued \cup {Len(reference) + 1}
        /\ ret' = Result("get", Len(reference) + 1, "ok", None)
        /\ fired' = 0
        /\ UNCHANGED <<cache, saves, caller, summaryVars, dropVars, completion>>

\* get(request, context), called while fewer than maxHolders holders were created
Get(r, ctx, maxHolders) == GetCached(r, ctx) \/ (Len(counters) < maxHolders /\ GetNew(r, ctx))

\* The URIs resolve() is called with: those toUri() can build.
VarKeys == {VarUri(a, q) : a \in Authorities, q \in Requests}

\* resolve(uri) on a cached URI: tryGet() acquires the cached handle
VarResolveCached(k) ==
    /\ VarLookup(k) # {}
    /\ LET h == (CHOOSE e \in VarLookup(k) : TRUE).handle
           c == reference[h] IN
        /\ counters[c].refs < MaxRefs
        /\ counters' = [counters EXCEPT ![c].refs = RefsAfterAcquire(@)]
        /\ hist' = [hist EXCEPT ![c] = HistAcquire(@)]
        /\ issued' = issued \cup {AcquiredHandle(h)}
        /\ ret' = Result("varResolve", AcquiredHandle(h), "ok", None)
    /\ fired' = 0
    /\ UNCHANGED <<cache, reference, resources, saves, varCache, resolving, caller, summaryVars, dropVars, completion>>

\* resolve(uri) on a URI that is not cached: throws 'Unknown URI'
VarResolveUnknown(k) ==
    /\ VarLookup(k) = {}
    /\ ret' = Result("varResolve", NoHandle, "error", None)
    /\ fired' = 0
    /\ UNCHANGED <<cache, reference, counters, resources, saves, hist, issued>>
    /\ UNCHANGED <<varCache, resolving, caller, summaryVars, dropVars, completion>>

\* resolve(uri)
VarResolve(k) == VarResolveCached(k) \/ VarResolveUnknown(k)

\* ResolvedAIContextVariable: value and the optional contextValue
ResolvedValues == [value : Str, contextValue : {None} \cup Str]

\* a continuation that takes value.value whatever the contextValue
ContextOrValueIgnoresContext(v) == v.value

\* value.contextValue || value.value
ContextOrValue(v) == IF v.contextValue \notin {None, ""} THEN v.contextValue ELSE v.value

\* resolveVariable() fulfils with the value v: refResource.update({ contents })
ResolutionYields(h, v) ==
    /\ h \in resolving
    /\ resolving' = resolving \ {h}
    /\ LET c == reference[h]
           o == ContentsOnly(ContextOrValue(v)) IN
        /\ resources' = [resources EXCEPT ![c] = ResourceUpdate(@, o)]
        /\ fired' = UpdateFires(resources[c], o)
        /\ hist' = [hist EXCEPT ![c] = HistUpdate(@, o)]
    /\ ret' = Result("resolved", NoHandle, "ok", None)
    /\ UNCHANGED <<cache, reference, counters, saves, issued, varCache, caller, summaryVars, dropVars, completion>>

\* resolveVariable() fulfils with undefined (result "undefined") or rejects
\* (result "error"): the continuation updates nothing
ResolutionYieldsNothing(h, r) ==
    /\ h \in resolving
    /\ resolving' = resolving \ {h}
    /\ ret' = Result("resolved", NoHandle, r, None)
    /\ fired' = 0
    /\ UNCHANGED <<cache, reference, counters, resources, saves, hist, issued, varCache, caller, summaryVars, dropVars, completion>>

\* One settling of a pending resolveVariable() promise.
ResolutionSettles ==
    \/ \E h \in resolving, v \in ResolvedValues : ResolutionYields(h, v)
    \/ \E h \in resolving, r \in {"undefined", "error"} : ResolutionYieldsNothing(h, r)

\* Control passes to the code of another consumer.
SwitchCaller(p) ==
    /\ p # caller
    /\ caller' = p
    /\ ret' = Result("switch", NoHandle, "ok", None)
    /\ fired' = 0
    /\ UNCHANGED <<cache, reference, counters, resources, saves, hist, issued>>
    /\ UNCHANGED <<varCache, resolving, summaryVars, dropVars, completion>>

\* One call of the resolver, with its arguments drawn from the given sets.
ResolverCall(K, IO, S, maxHolders) ==
    \/ \E k \in K, o \in IO : Add(k, o, maxHolders)
    \/ \E k \in K : Resolve(k)
    \/ \E k \in K : TryGet(k)
    \/ \E k \in K, x \in S : Update(k, x)

\* One call on a handle that some call returned.
HandleCall(UO, S) ==
    \/ \E h \in issued, o \in UO : HandleUpdate(h, o)
    \/ \E h \in issued : ReadContents(h)
    \/ \E h \in issued, x \in S : SaveContents(h, x)

\* One continuation of a suspended saveContents().
SaveSettles ==
    \/ \E i \in DOMAIN saves : SaveComplete(i)
    \/ \E i \in DOMAIN saves : SaveFail(i)

\* The registry: two URIs, holders that come and go, and the calls that
\* create, share, overwrite and release them.
RegistryInit ==
    {o \in Unflagged(InitOptions) : o.contents \in {Undefined, StrPayload("a")}}

Next ==
    \/ ResolverCall(Keys, RegistryInit, Str, MaxHolders)
    \/ \E h \in issued : HandleDispose(h)

Spec == Init /\ [][Next]_vars

\* The contents of one URI: every kind of initial payload, updates of the
\* payload and of the save callback, reads and saves, next to the calls
\* that share and release the holder.
ContentNext ==
    \/ ResolverCall({"u1"}, Unflagged(InitOptions), Str, MaxContentHolders)
    \/ \E h \in issued : HandleDispose(h)
    \/ HandleCall(UpdateOptions, Str)
    \/ SaveSettles

ContentSpec == Init /\ [][ContentNext]_vars

\* The flags of one holder: every combination of registration options, the
\* updates of its payload and save callback, its saves and its getters.
FlagsInit ==
    {o \in InitOptions : o.contents \in {Undefined, StrPayload("a")}}

FlagsNext ==
    \/ \E o \in FlagsInit : Add("u1", o, MaxContentHolders)
    \/ \E x \in Str : Update("u1", x)
    \/ \E h \in issued, o \in UpdateOptions : HandleUpdate(h, o)
    \/ \E h \in issued, x \in Str : SaveContents(h, x)
    \/ SaveSettles
    \/ \E h \in issued : GetReadOnly(h)
    \/ \E h \in issued : GetAutosaveable(h)
    \/ \E h \in issued : GetInitiallyDirty(h)

FlagsSpec == Init /\ [][FlagsNext]_vars

\* Two consumers of one URI: each obtains handles by add, resolve and tryGet
\* and disposes the handles it obtained, as often as it likes.
ConsumerInit == {o \in RegistryInit : o.onSave = None}

ConsumerNext ==
    \/ ResolverCall({"u1"}, ConsumerInit, Str, MaxContentHolders)
    \/ \E h \in issued : HandleDispose(h)
    \/ \E p \in Consumers : SwitchCaller(p)

ConsumerSpec == Init /\ [][ConsumerNext]_vars

\* One URI that is registered, released and registered again, with calls on
\* the handles of the holders that were torn down as well as of the live one.
ReuseInit == {o \in RegistryInit : o.contents = Undefined}

ReuseUpdates == {ContentsOnly("a")}

ReuseNext ==
    \/ \E o \in ReuseInit : Add("u1", o, MaxHolders)
    \/ \E h \in issued : HandleDispose(h)
    \/ \E h \in issued, o \in ReuseUpdates : HandleUpdate(h, o)
    \/ \E h \in issued : SaveContents(h, "a")
    \/ SaveSettles

ReuseSpec == Init /\ [][ReuseNext]_vars

\* Holders with an asynchronous operation under way: a change-set holder
\* with a save callback and its saves, variable holders and their
\* resolutions, and the disposes that may come before either settles.
PendingInit == {o \in RegistryInit : o.contents = Undefined /\ o.onSave # None}

PendingContexts == {"c1"}

PendingNext ==
    \/ \E o \in PendingInit : Add("u1", o, MaxPendingHolders)
    \/ \E r \in OneRequest, ctx \in PendingContexts : Get(r, ctx, MaxPendingHolders)
    \/ \E h \in issued : HandleDispose(h)
    \/ \E h \in issued : SaveContents(h, "a")
    \/ SaveSettles
    \/ ResolutionSettles

PendingSpec == Init /\ [][PendingNext]_vars

\* The variable resolver alone: get() under the empty and a non-empty
\* context, resolve() on every URI get() can build, the settling of the
\* resolutions and the disposes of the handles.
VariableNext ==
    \/ \E r \in OneRequest, ctx \in Contexts : Get(r, ctx, MaxPendingHolders)
    \/ \E k \in VarKeys : VarResolve(k)
    \/ \E h \in issued : HandleDispose(h)
    \/ ResolutionSettles

VariableSpec == Init /\ [][VariableNext]_vars

\* The value the resolutions of SharingSpec fulfil with.
SharedValue == [value |-> "a", contextValue |-> None]

\* Two requests resolved in deep-equal non-empty contexts, each resolution
\* fulfilling with the same value.
SharingNext ==
    \/ \E r \in Requests, ctx \in PendingContexts : Get(r, ctx, MaxHolders)
    \/ \E k \in VarKeys : VarResolve(k)
    \/ \E h \in issued : HandleDispose(h)
    \/ \E h \in resolving : ResolutionYields(h, SharedValue)

SharingSpec == Init /\ [][SharingNext]_vars

\* ---------------------------------------- SessionSumaryVariableContribution

\* SESSION_SUMMARY_VARIABLE.id and the id of some other variable
SummaryVariableId == "session-summary"
VariableIds == {SummaryVariableId, "other"}

\* request.arg: missing, the id of a session never created, or a session id
SummaryArgs == {None, UnknownSession} \cup SessionIds

\* The variables no call of the contribution or of the chat service touches.
resourceVars ==
    <<cache, reference, counters, resources, saves, hist, issued, varCache, resolving, caller>>

\* ChatService.createSession()
CreateSession(s) ==
    /\ sessions[s].state = "none"
    /\ sessions' = [sessions EXCEPT ![s] = [state |-> "live", requests |-> 0]]
    /\ ret' = Result("createSession", NoHandle, "ok", None)
    /\ fired' = 0
    /\ UNCHANGED <<resourceVars, summaries, calls, dropVars, completion>>

\* ChatModel.addRequest() on a session of the chat service
AddRequest(s) ==
    /\ sessions[s].state = "live"
    /\ sessions[s].requests < MaxRequests
    /\ sessions' = [sessions EXCEPT ![s].requests = @ + 1]
    /\ ret' = Result("addRequest", NoHandle, "ok", None)
    /\ fired' = 0
    /\ UNCHANGED <<resourceVars, summaries, calls, dropVars, completion>>

\* ChatService.deleteSession(); the session object stays with those who hold it
DeleteSession(s) ==
    /\ sessions[s].state = "live"
    /\ sessions' = [sessions EXCEPT ![s].state = "deleted"]
    /\ ret' = Result("deleteSession", NoHandle, "ok", None)
    /\ fired' = 0
    /\ UNCHANGED <<resourceVars, summaries, calls, dropVars, completion>>

\* chatService.getSession(arg) is defined
ExistingSession(arg) == arg \in SessionIds /\ sessions[arg].state = "live"

\* summaries.get(arg)
ExistingSummary(arg) == IF arg \in SessionIds THEN summaries[arg] ELSE NoEntry

\* a test that asks for a summary only when none is cached
NewSummaryOnlyWhenMissing(arg) ==
    ExistingSession(arg) /\ ExistingSummary(arg) = NoEntry

\* newSummaryPossibleAndNecessary
NewSummaryPossibleAndNecessary(arg) ==
    /\ ExistingSession(arg)
    /\ \/ ExistingSummary(arg) = NoEntry
       \/ ExistingSummary(arg).length # sessions[arg].requests

\* What resolve() returns for the summary text `value': the resolved
\* variable, or undefined for a text that is missing or empty.
SummaryResult(op, value) ==
    IF value.text \in {None, ""}
    THEN Result(op, NoHandle, "undefined", None)
    ELSE Result(op, NoHandle, "ok", value)

\* resolve() for another variable or without an argument: returns undefined
SummaryResolveRejects(id, arg) ==
    /\ id # SummaryVariableId \/ arg = None
    /\ ret' = Result("summary", NoHandle, "undefined", None)
    /\ fired' = 0
    /\ UNCHANGED <<resourceVars, summaryVars, dropVars, completion>>

\* resolve() that needs no new summary: returns existingSummary?.summary
SummaryResolveCached(id, arg) ==
    /\ id = SummaryVariableId /\ arg # None
    /\ ~NewSummaryPossibleAndNecessary(arg)
    /\ ret' = SummaryResult("summary", ExistingSummary(arg).summary)
    /\ fired' = 0
    /\ UNCHANGED <<resourceVars, summaryVars, dropVars, completion>>

\* resolve() that calls summarizeSession(): generateChatSessionSummary()
\* runs up to its await of selectLanguageModel()
SummaryResolveStarts(id, arg) ==
    /\ id = SummaryVariableId /\ arg # None
    /\ NewSummaryPossibleAndNecessary(arg)
    /\ Len(calls) < MaxSummaryCalls
    /\ calls' = Append(calls, [arg |-> arg, pc |-> "lm", from |-> 0])
    /\ ret' = Result("summary", NoHandle, "pending", None)
    /\ fired' = 0
    /\ UNCHANGED <<resourceVars, sessions, summaries, dropVars, completion>>

\* resolve(request, context)
SummaryResolve(id, arg) ==
    \/ SummaryResolveRejects(id, arg)
    \/ SummaryResolveCached(id, arg)
    \/ SummaryResolveStarts(id, arg)

\* a failure path that caches an empty summary for the session
SummariesOnFailureCachesEmpty(i) ==
    [summaries EXCEPT ![calls[i].arg] =
        [summary |-> [from |-> sessions[calls[i].arg].requests, text |-> ""],
         length |-> sessions[calls[i].arg].requests]]

\* The cache after generateChatSessionSummary() threw: summaries.set() of
\* summarizeSession is not reached.
SummariesOnFailure(i) == summaries

\* An exception of generateChatSessionSummary(): resolve() catches it and
\* returns undefined
SummaryFails(i) ==
    /\ calls' = [calls EXCEPT ![i] = [@ EXCEPT !.pc = "done", !.from = 0]]
    /\ summaries' = SummariesOnFailure(i)
    /\ ret' = Result("summaryFailed", NoHandle, "undefined", None)
    /\ fired' = 0
    /\ UNCHANGED <<resourceVars, sessions, dropVars, completion>>

\* selectLanguageModel() fulfils with undefined
LanguageModelMissing(i) ==
    /\ calls[i].pc = "lm"
    /\ SummaryFails(i)

\* a language model, but chatSession.model.getRequests().length < 1
NoChatRequest(i) ==
    /\ calls[i].pc = "lm"
    /\ sessions[calls[i].arg].requests < 1
    /\ SummaryFails(i)

\* a language model and requests: the conversation is built from the
\* requests the session has now, and getPrompt() is awaited
ConversationBuilt(i) ==
    /\ calls[i].pc = "lm"
    /\ sessions[calls[i].arg].requests >= 1
    /\ calls' = [calls EXCEPT ![i] = [@ EXCEPT !.pc = "prompt",
                                                !.from = sessions[calls[i].arg].requests]]
    /\ ret' = Result("conversation", NoHandle, "pending", None)
    /\ fired' = 0
    /\ UNCHANGED <<resourceVars, sessions, summaries, dropVars, completion>>

\* getPrompt() fulfils without a text
PromptMissing(i) ==
    /\ calls[i].pc = "prompt"
    /\ SummaryFails(i)

\* getPrompt() fulfils with the message: lm.request() is awaited
PromptBuilt(i) ==
    /\ calls[i].pc = "prompt"
    /\ calls' = [calls EXCEPT ![i].pc = "request"]
    /\ ret' = Result("prompt", NoHandle, "pending", None)
    /\ fired' = 0
    /\ UNCHANGED <<resourceVars, sessions, summaries, dropVars, completion>>

\* lm.request() or getTextOfResponse() rejects
ModelRequestFails(i) ==
    /\ calls[i].pc = "request"
    /\ SummaryFails(i)

\* The entry summarizeSession() stores for the response text t of call i:
\* the summary of the conversation built, and the length the session has now.
SummaryEntry(i, t) ==
    [summary |-> [from |-> calls[i].from, text |-> t],
     length |-> sessions[calls[i].arg].requests]

\* The model responds with the text t: summarizeSession() caches it and
\* resolve() returns it
ModelResponds(i, t) ==
    /\ calls[i].pc = "request"
    /\ summaries' = [summaries EXCEPT ![calls[i].arg] = SummaryEntry(i, t)]
    /\ calls' = [calls EXCEPT ![i] = [@ EXCEPT !.pc = "done", !.from = 0]]
    /\ ret' = SummaryResult("summarized", SummaryEntry(i, t).summary)
    /\ fired' = 0
    /\ UNCHANGED <<resourceVars, sessions, dropVars, completion>>

\* Sessions that are created, grow and are deleted, resolve() calls for
\* them, and the steps of the summary agent for the calls that reached it.
SummaryNext ==
    \/ \E s \in SessionIds : CreateSession(s)
    \/ \E s \in SessionIds : AddRequest(s)
    \/ \E s \in SessionIds : DeleteSession(s)
    \/ \E id \in VariableIds, arg \in SummaryArgs : SummaryResolve(id, arg)
    \/ \E i \in DOMAIN calls : LanguageModelMissing(i)
    \/ \E i \in DOMAIN calls : NoChatRequest(i)
    \/ \E i \in DOMAIN calls : ConversationBuilt(i)
    \/ \E i \in DOMAIN calls : PromptMissing(i)
    \/ \E i \in DOMAIN calls : PromptBuilt(i)
    \/ \E i \in DOMAIN calls : ModelRequestFails(i)
    \/ \E i \in DOMAIN calls, t \in Str : ModelResponds(i, t)

SummarySpec == Init /\ [][SummaryNext]_vars

\* --------------------------------------------- DefaultFrontendVariableService

\* The drop handlers, and what a handler's promise can fulfil with:
\* undefined, or a result with or without variables and with a text that is
\* undefined, empty or the handler's own.
Handlers == {"h1", "h2"}
NoDropResult == [some |-> FALSE, variables |-> <<>>, text |-> None]
DropResults(h) ==
    {NoDropResult} \cup [some : {TRUE}, variables : {<<>>, <<h>>}, text : {None, "", h}]

\* The elements of a sequence
Range(q) == {q[i] : i \in DOMAIN q}

\* A getDropResult() call that returned or threw.
DoneDrop ==
    [state |-> "done", next |-> 0, awaiting |-> None, variables |-> <<>>, text |-> None,
     log |-> <<>>, at |-> <<>>, stable |-> TRUE]

\* The variables outside the frontend variable service.
outsideDrop == <<resourceVars, summaryVars, completion>>

\* A change of the handler set, noted in the calls that are iterating it.
Unstable(ds) == [d \in DOMAIN ds |-> IF ds[d].state = "awaiting" THEN [ds[d] EXCEPT !.stable = FALSE] ELSE ds[d]]

\* registerDropHandler(handler): Set.add keeps the place of a handler
\* that is registered already
RegisterDropHandler(h) ==
    /\ dropHandlers' = IF h \in Range(dropHandlers) THEN dropHandlers ELSE Append(dropHandlers, h)
    /\ drops' = IF h \in Range(dropHandlers) THEN drops ELSE Unstable(drops)
    /\ disposables' = disposables \cup {h}
    /\ ret' = Result("registerDropHandler", NoHandle, "ok", None)
    /\ fired' = 0
    /\ UNCHANGED outsideDrop

\* Set.delete(h): the entries behind h move up, under the iterators too
SetDelete(q, h) == SelectSeq(q, LAMBDA x : x # h)

\* The position of h in the handler set
PositionOf(h) == CHOOSE i \in DOMAIN dropHandlers : dropHandlers[i] = h

\* unregisterDropHandler(handler)
UnregisterDropHandler(h) ==
    /\ dropHandlers' = SetDelete(dropHandlers, h)
    /\ drops' = IF h \notin Range(dropHandlers) THEN drops
                ELSE [d \in DOMAIN drops |->
                        IF drops[d].state # "awaiting" THEN drops[d]
                        ELSE [drops[d] EXCEPT !.stable = FALSE,
                                              !.next = IF @ > PositionOf(h) THEN @ - 1 ELSE @]]
    /\ ret' = [Result("unregisterDropHandler", NoHandle, "ok", None) EXCEPT !.value = h]
    /\ fired' = 0
    /\ UNCHANGED <<outsideDrop, disposables>>

\* dispose() of the Disposable registerDropHandler(handler) returned
DisposeDropRegistration(h) ==
    /\ h \in disposables
    /\ UnregisterDropHandler(h)

\* a loop body that takes the text of every result
TextAfterOverwrites(text, result) == result.text

\* if (text === undefined) { text = result.text; }
TextAfter(text, result) == IF text = None THEN result.text ELSE text

\* The locals of call d after the awaited handler fulfilled with `result'
AfterResult(d, result) ==
    [drops[d] EXCEPT
        !.variables = IF result.some THEN @ \o result.variables ELSE @,
        !.text = IF result.some THEN TextAfter(@, result) ELSE @,
        !.log = Append(@, [handler |-> drops[d].awaiting, result |-> result])]

\* getDropResult() with no handler registered: returns { variables: [], text: undefined }
DropNothing ==
    /\ Len(drops) < MaxDrops
    /\ dropHandlers = <<>>
    /\ drops' = Append(drops, DoneDrop)
    /\ ret' = Result("dropResult", NoHandle, "ok", [variables |-> <<>>, text |-> None])
    /\ fired' = 0
    /\ UNCHANGED <<outsideDrop, dropHandlers, disposables>>

\* getDropResult(), called when the call before it has settled: the loop
\* calls the first handler and awaits its promise
DropStart ==
    /\ Len(drops) < MaxDrops
    /\ \A d \in DOMAIN drops : drops[d].state # "awaiting"
    /\ dropHandlers # <<>>
    /\ drops' = Append(drops,
           [state |-> "awaiting", next |-> 2, awaiting |-> dropHandlers[1],
            variables |-> <<>>, text |-> None, log |-> <<>>,
            at |-> dropHandlers, stable |-> TRUE])
    /\ ret' = [Result("drop", NoHandle, "pending", None) EXCEPT !.value = dropHandlers[1]]
    /\ fired' = 0
    /\ UNCHANGED <<outsideDrop, dropHandlers, disposables>>

\* The awaited handler fulfils and the iterator has another handler: the
\* loop calls it and awaits its promise
DropContinues(d, result) ==
    /\ drops[d].state = "awaiting"
    /\ drops[d].next <= Len(dropHandlers)
    /\ Len(drops[d].log) + 2 <= MaxInvocations
    /\ drops' = [drops EXCEPT ![d] = [AfterResult(d, result) EXCEPT
                                          !.awaiting = dropHandlers[drops[d].next],
                                          !.next = @ + 1]]
    /\ ret' = [Result("drop", NoHandle, "pending", None) EXCEPT
                  !.value = dropHandlers[drops[d].next]]
    /\ fired' = 0
    /\ UNCHANGED <<outsideDrop, dropHandlers, disposables>>

\* The awaited handler fulfils and the iterator is exhausted:
\* returns { variables, text }
DropReturns(d, result) ==
    /\ drops[d].state = "awaiting"
    /\ drops[d].next > Len(dropHandlers)
    /\ drops' = [drops EXCEPT ![d] = DoneDrop]
    /\ ret' = Result("dropResult", NoHandle, "ok",
                  [variables |-> AfterResult(d, result).variables,
                   text |-> AfterResult(d, result).text])
    /\ fired' = 0
    /\ UNCHANGED <<outsideDrop, dropHandlers, disposables>>

\* The awaited handler rejects: getDropResult() rejects
DropRejects(d) ==
    /\ drops[d].state = "awaiting"
    /\ drops' = [drops EXCEPT ![d] = DoneDrop]
    /\ ret' = Result("dropResult", NoHandle, "error", None)
    /\ fired' = 0
    /\ UNCHANGED <<outsideDrop, dropHandlers, disposables>>

\* Handlers that are registered and removed around getDropResult() calls
\* and the settling of the handlers' promises.
DropNext ==
    \/ \E h \in Handlers : RegisterDropHandler(h)
    \/ \E h \in Handlers : UnregisterDropHandler(h)
    \/ \E h \in Handlers : DisposeDropRegistration(h)
    \/ DropNothing
    \/ DropStart
    \/ \E d \in DOMAIN drops : \E r \in DropResults(drops[d].awaiting) : DropContinues(d, r)
    \/ \E d \in DOMAIN drops : \E r \in DropResults(drops[d].awaiting) : DropReturns(d, r)
    \/ \E d \in DOMAIN drops : DropRejects(d)

DropSpec == Init /\ [][DropNext]_vars

\* ------------------------------------------------ AIVariableCompletionContext

\* PromptText.VARIABLE_CHAR and PromptText.VARIABLE_SEPARATOR_CHAR, and the
\* characters of the lines: these two, a space, a letter, and the trigger
\* passed as matchString.
VariableChar == "#"
VariableSeparatorChar == ":"
CustomTrigger == "@"
Alphabet == {VariableChar, VariableSeparatorChar, " ", "a", CustomTrigger}

\* The lines of at most MaxLineLen characters, as sequences of characters
Lines == UNION {[1..n -> Alphabet] : n \in 0..MaxLineLen}

\* The calls: a line, a column of it (1-based, up to the end of the line),
\* and the matchString, which is optional
CompletionInputs ==
    {[line |-> l, column |-> c, matchString |-> m, variableName |-> "v", out |-> NotCalled] :
        l \in Lines, c \in 1..(MaxLineLen + 1), m \in {None, CustomTrigger}}

\* String.prototype.lastIndexOf(ch, fromIndex) for a one-character ch:
\* the greatest 0-based index up to fromIndex that holds ch, or -1
LastIndexOf(line, ch, fromIndex) ==
    LET found == {i \in 0..(Len(line) - 1) : i <= fromIndex /\ line[i + 1] = ch} IN
        IF found = {} THEN -1 ELSE CHOOSE i \in found : \A j \in found : j <= i

\* Math.min and Math.max
Min(a, b) == IF a < b THEN a ELSE b
Max(a, b) == IF a > b THEN a ELSE b

\* String.prototype.substring(start, end): both clamped to the string and
\* swapped when start is greater than end
Substring(line, start, end) ==
    LET s == Max(0, Min(start, Len(line)))
        e == Max(0, Min(end, Len(line)))
    IN  SubSeq(line, Min(s, e) + 1, Max(s, e))

\* String.prototype.includes(ch)
Includes(line, ch) == \E i \in DOMAIN line : line[i] = ch

\* lineContent[i]: the character, or undefined outside the line
CharAt(line, i) == IF i + 1 \in DOMAIN line THEN line[i + 1] ELSE None

\* lineContent.substring(indexOfVariableTrigger).includes(' ')
SpaceAfterTrigger(line, trigger, column) ==
    Includes(Substring(line, trigger, Len(line)), " ")

\* AIVariableCompletionContext.get(variableName, model, position, matchString)
\* with lineContent the line of the position
CompletionContextGet(variableName, line, column, matchString) ==
    LET indexOfVariableTrigger ==
            LastIndexOf(line, IF matchString = None THEN VariableChar ELSE matchString, column - 1)
        indexOfVariableArgSeparator == LastIndexOf(line, VariableSeparatorChar, column - 1)
        triggerCharIndex == Max(indexOfVariableTrigger, indexOfVariableArgSeparator)
        matchVariableChar ==
            CharAt(line, triggerCharIndex) = (IF matchString = None THEN VariableChar ELSE matchString)
    IN  IF indexOfVariableTrigger = -1 \/ SpaceAfterTrigger(line, indexOfVariableTrigger, column)
        THEN UndefinedContext
        ELSE [called |-> TRUE, defined |-> TRUE,
              userInput |-> Substring(line, triggerCharIndex + 1, column - 1),
              prefix |-> IF matchVariableChar THEN variableName \o VariableSeparatorChar ELSE "",
              range |-> <<triggerCharIndex + 2, column>>]

\* One call of AIVariableCompletionContext.get
GetCompletionContext ==
    /\ ~completion.out.called
    /\ completion' = [completion EXCEPT !.out =
           CompletionContextGet(completion.variableName, completion.line,
                                completion.column, completion.matchString)]
    /\ ret' = Result("completion", NoHandle, "ok", None)
    /\ fired' = 0
    /\ UNCHANGED <<resourceVars, summaryVars, dropVars>>

\* Every line, every cursor position on it, with and without a matchString.
CompletionInit ==
    /\ completion \in {c \in CompletionInputs : c.column <= Len(c.line) + 1}
    /\ cache = [k \in Keys |-> NoHandle]
    /\ reference = <<>> /\ counters = <<>> /\ resources = <<>> /\ saves = <<>>
    /\ ret = Result("init", NoHandle, "ok", None)
    /\ fired = 0 /\ hist = <<>> /\ issued = {}
    /\ varCache = {} /\ resolving = {} /\ caller = "A"
    /\ sessions = [s \in SessionIds |-> NoSession]
    /\ summaries = [s \in SessionIds |-> NoEntry]
    /\ calls = <<>>
    /\ dropHandlers = <<>> /\ drops = <<>> /\ disposables = {}

CompletionNext == GetCompletionContext

CompletionSpec == CompletionInit /\ [][CompletionNext]_vars

\* ------------------------------------------------------------ properties

\* The counter c is the one the cache maps its key to.
Mapped(c) ==
    /\ cache[counters[c].key] # NoHandle
    /\ reference[cache[counters[c].key]] = c

\* What a failed or read-only call leaves alone: every object and the cache.
Untouched ==
    UNCHANGED <<cache, reference, counters, resources, saves, hist, issued, varCache, resolving>>

\* C1: while an entry is live its count is 1 plus the successful
\* resolve/tryGet calls minus the dispose calls on it; a counter with as many
\* dispose calls as acquires plus one is not in the registry; update,
\* readContents and saveContents steps leave every count as it was.
C1_Balance ==
    \A c \in DOMAIN counters :
        /\ Mapped(c) => counters[c].refs = hist[c].balance
        /\ hist[c].balance <= 0 => ~Mapped(c)

C1_CountFrame ==
    ret'.op \in {"update", "handleUpdate", "readContents", "saveContents", "saveDone"}
        => counters' = counters

C1_RefCountAccounting == []C1_Balance /\ [][C1_CountFrame]_vars

\* a live entry that was acquired and then had one reference released
C1_Witness ==
    /\ ret.op = "dispose"
    /\ \E c \in DOMAIN counters : Mapped(c) /\ counters[c].refs = MaxRefs - 1 /\ hist[c].balance = MaxRefs - 1

\* C2: a counter is mapped in the cache exactly when its count is at least 1
\* and its resource is not disposed; the resource is disposed, and the entry
\* removed in the same step, exactly on the step that takes the count from 1
\* to 0; no identifier has two undisposed holders.
C2_MappedIffLive ==
    /\ \A c \in DOMAIN counters :
          Mapped(c) <=> (counters[c].refs >= 1 /\ ~resources[c].emitterDisposed)
    /\ \A c, d \in DOMAIN counters :
          (counters[c].key = counters[d].key
              /\ ~resources[c].emitterDisposed /\ ~resources[d].emitterDisposed) => c = d

C2_DisposeStep ==
    \A c \in DOMAIN counters :
        /\ (~resources[c].emitterDisposed /\ resources'[c].emitterDisposed)
              <=> (counters[c].refs = 1 /\ counters'[c].refs = 0)
        /\ (counters[c].refs = 1 /\ counters'[c].refs = 0)
              => (Mapped(c) /\ cache'[counters[c].key] = NoHandle)

C2_CacheIffReferenced == []C2_MappedIffLive /\ [][C2_DisposeStep]_vars

\* an identifier registered again after its first holder was torn down
C2_Witness ==
    \E c, d \in DOMAIN counters :
        /\ c # d
        /\ counters[c].key = counters[d].key
        /\ resources[c].emitterDisposed /\ counters[c].refs = 0
        /\ Mapped(d)

\* C3: add on an identifier that has a live entry throws and leaves the
\* cache, the existing counter, its resource (payload and save callback) and
\* its handle as they were.
C3_Step ==
    ret'.op = "add" =>
        \A k \in Keys, o \in RegistryInit :
            (cache[k] # NoHandle /\ Add(k, o, MaxHolders))
                => (ret'.result = "error" /\ ret'.handle = NoHandle /\ fired' = 0 /\ Untouched)

C3_DuplicateAddFails == [][C3_Step]_vars

\* a failed add next to the entry it collided with, still referenced
C3_Witness ==
    /\ ret.op = "add" /\ ret.result = "error"
    /\ \E c \in DOMAIN counters : Mapped(c) /\ counters[c].refs >= 1

\* C4: on an identifier without an entry resolve and update throw, tryGet
\* returns undefined, and none of them creates an entry or changes a count;
\* on a cached identifier tryGet, like resolve, returns the cached handle and
\* adds one to its count.
C4_Step ==
    ret'.op \in {"resolve", "tryGet", "update"} => \A k \in Keys :
        /\ cache[k] = NoHandle =>
            /\ Resolve(k) => (ret'.result = "error" /\ fired' = 0 /\ Untouched)
            /\ TryGet(k) => (ret'.result = "undefined" /\ fired' = 0 /\ Untouched)
            /\ \A x \in Str : Update(k, x) => (ret'.result = "error" /\ fired' = 0 /\ Untouched)
        /\ (cache[k] # NoHandle /\ (TryGet(k) \/ Resolve(k))) =>
            /\ ret'.result = "ok" /\ ret'.handle = cache[k]
            /\ counters' = [counters EXCEPT ![reference[cache[k]]].refs = @ + 1]
            /\ UNCHANGED <<cache, reference, resources, saves>>

C4_UnknownIdentifier == [][C4_Step]_vars

\* tryGet found nothing while another identifier had a live entry
C4_Witness ==
    /\ ret.op = "tryGet" /\ ret.result = "undefined"
    /\ \E c \in DOMAIN counters : Mapped(c)

\* C5: the reference count of a counter is never negative.
C5_CountNeverNegative == \A c \in DOMAIN counters : counters[c].refs >= 0

\* C6: the onDispose closure of a counter runs at most once.
C6_TeardownAtMostOnce == \A c \in DOMAIN counters : hist[c].teardowns <= 1

\* a counter disposed once more after its teardown
C6_Witness ==
    /\ ret.op = "dispose"
    /\ \E c \in DOMAIN counters : hist[c].teardowns = 1 /\ hist[c].balance < 0

C7_Step ==
    ret'.op \in {"resolve", "tryGet"} => \A k \in Keys :
        (cache[k] # NoHandle /\ (Resolve(k) \/ TryGet(k))) =>
            /\ ret'.handle = cache[k]
            /\ ret'.handle \in issued
            /\ counters'[reference[cache[k]]].refs = counters[reference[cache[k]]].refs + 1
            /\ reference' = reference
            /\ Len(counters') = Len(counters)
            /\ Len(resources') = Len(resources)

C8_Step ==
    /\ ret'.op = "update" => \A k \in Keys, x \in Str :
          (cache[k] # NoHandle /\ Update(k, x)) =>
              LET c == reference[cache[k]] IN
                  /\ resources'[c].contents = StrPayload(x)
                  /\ resources[c].contents # StrPayload(x) => fired' = 1
                  /\ resources[c].contents = StrPayload(x) => (fired' = 0 /\ resources' = resources)
                  /\ (ret.op = "update" /\ ret.result = "ok" /\ resources[c].contents = StrPayload(x))
                        => fired + fired' <= 1
    /\ ret'.op = "handleUpdate" =>
          fired' = IF \E c \in DOMAIN resources : resources'[c].contents # resources[c].contents
                   THEN 1 ELSE 0

C8_UpdateNotification == [][C8_Step]_vars

\* an update(uri, X) that found X already stored
C8_Witness ==
    /\ ret.op = "update" /\ ret.result = "ok" /\ fired = 0
    /\ \E c \in DOMAIN resources : Mapped(c) /\ resources[c].contents.kind = "string"

\* C9: readContents on a handle of a live holder returns the string last
\* written by the registration, an update with contents or a completed save.
C9_Step ==
    ret'.op = "readContents" => \A h \in issued :
        (Mapped(reference[h]) /\ ReadContents(h)) =>
            (ret'.result = "ok" /\ ret'.value = hist[reference[h]].written)

C9_ReadsLastWritten == [][C9_Step]_vars

\* a read of "a" from a live holder
C9_Witness ==
    /\ ret.op = "readContents" /\ ret.value = "a"
    /\ \E c \in DOMAIN resources : Mapped(c) /\ hist[c].written = "a"

\* C10: saveContents(x) on a holder registered with a save callback calls
\* that callback with x, once, and changes no payload in that step; the step
\* in which the callback's promise fulfils calls nothing, stores x and fires
\* once if x was not the payload; no other step calls a save callback.
C10_Step ==
    /\ ret'.op = "saveContents" => \A h \in issued, x \in Str :
          (resources[reference[h]].options.onSave # None /\ SaveContents(h, x)) =>
              /\ ret'.called = [cb |-> resources[reference[h]].options.onSave, x |-> x]
              /\ saves' = Append(saves, [res |-> reference[h], x |-> x])
              /\ resources' = resources
              /\ fired' = 0
    /\ ret'.op = "saveDone" => \A i \in DOMAIN saves :
          SaveComplete(i) =>
              /\ ret'.called = NoCall
              /\ resources'[saves[i].res].contents = StrPayload(saves[i].x)
              /\ fired' = IF resources[saves[i].res].contents # StrPayload(saves[i].x) THEN 1 ELSE 0
    /\ ret'.op # "saveContents" => ret'.called = NoCall

C10_SaveThroughCallback == [][C10_Step]_vars

\* a save completed and replaced a different payload
C10_Witness == ret.op = "saveDone" /\ ret.result = "ok" /\ fired = 1

\* C11: saveContents(x) on a holder whose save callback is unset calls no
\* callback, starts no save, fires nothing and leaves the payload, the save
\* callback, every count and the cache as they were.
C11_Step ==
    ret'.op = "saveContents" => \A h \in issued, x \in Str :
        (resources[reference[h]].onSave = None /\ SaveContents(h, x))
            => (ret'.called = NoCall /\ fired' = 0 /\ Untouched)

C11_SaveWithoutCallbackIsNoOp == [][C11_Step]_vars

\* C12: update with an onSave field stores that callback in the holder, and
\* saveContents(x) calls the callback the holder stores at that moment: the
\* one of the last such update, or the registration's if there was none.
C12_Step ==
    /\ ret'.op = "handleUpdate" => \A h \in issued, o \in UpdateOptions :
          (o.hasOnSave /\ HandleUpdate(h, o)) => resources'[reference[h]].onSave = o.onSave
    /\ ret'.op = "saveContents" => \A h \in issued, x \in Str :
          (resources[reference[h]].onSave # None /\ SaveContents(h, x))
              => ret'.called = [cb |-> resources[reference[h]].onSave, x |-> x]

C12_SaveUsesCurrentCallback == [][C12_Step]_vars

\* C13: an update(uri, y) made while a saveContents(x) on the same holder
\* awaits its callback stores y, fires once if y differs from the payload and
\* leaves the save pending; the payload then stays y until a step that
\* writes the payload, and the step in which the callback fulfils stores x
\* and fires once if x differs from the payload of that moment.
C13_Step ==
    /\ ret'.op = "update" => \A k \in Keys, y \in Str :
          (/\ cache[k] # NoHandle
           /\ \E i \in DOMAIN saves : saves[i].res = reference[cache[k]]
           /\ Update(k, y)) =>
              LET c == reference[cache[k]] IN
                  /\ resources'[c].contents = StrPayload(y)
                  /\ fired' = IF resources[c].contents # StrPayload(y) THEN 1 ELSE 0
                  /\ saves' = saves
    /\ ret'.op = "saveDone" => \A i \in DOMAIN saves :
          (ret'.result = "ok" /\ SaveComplete(i)) =>
              /\ resources'[saves[i].res].contents = StrPayload(saves[i].x)
              /\ fired' = IF resources[saves[i].res].contents # StrPayload(saves[i].x) THEN 1 ELSE 0
              /\ saves' = Remove(saves, i)
    /\ \A c \in DOMAIN resources :
          resources'[c].contents # resources[c].contents
              => ret'.op \in {"update", "handleUpdate", "saveDone"}

C13_LastWriteWins == [][C13_Step]_vars

\* an update replaced the payload by a string other than the one being saved
C13_Witness ==
    /\ ret.op = "update" /\ ret.result = "ok" /\ fired = 1
    /\ \E i \in DOMAIN saves :
          /\ Mapped(saves[i].res)
          /\ resources[saves[i].res].contents.kind = "string"
          /\ resources[saves[i].res].contents.val # saves[i].x

\* C16: the step in which a save callback's promise rejects rejects the
\* saveContents call, ends that save, and replaces no payload, fires nothing
\* and changes no save callback, count, cache entry or other pending save.
C16_Step ==
    (ret'.op = "saveDone" /\ ret'.result = "error") =>
        /\ fired' = 0
        /\ Len(saves') = Len(saves) - 1
        /\ \A i \in DOMAIN saves : SaveFail(i) => saves' = Remove(saves, i)
        /\ UNCHANGED <<cache, reference, counters, resources, hist, issued>>

C16_SaveFailureChangesNothing == [][C16_Step]_vars

\* a rejected save of a string other than the payload of a live holder
C16_Witness ==
    /\ ret.op = "saveDone" /\ ret.result = "error" /\ saves = <<>>
    /\ \E c \in DOMAIN resources :
          Mapped(c) /\ resources[c].options.onSave # None /\ resources[c].contents = StrPayload("")

\* C15: update(options) on a handle changes only what the options name:
\* without an onSave field it leaves the save callback, and with it the
\* reported readOnly, as they were; without contents it leaves the payload
\* as it was and fires nothing; in either case the options given at
\* registration (readOnly, autosaveable, initiallyDirty and the registration
\* callback), the reported autosaveable and initiallyDirty, every count, the
\* cache and the pending saves stay as they were.  update(uri, contents) of
\* the resolver is an update without an onSave field.
C15_Step ==
    /\ ret'.op = "handleUpdate" => \A h \in issued, o \in UpdateOptions :
          HandleUpdate(h, o) =>
              LET old == resources[reference[h]]
                  new == resources'[reference[h]] IN
                  /\ ~o.hasOnSave => (new.onSave = old.onSave /\ ReadOnly(new) = ReadOnly(old))
                  /\ o.contents = Undefined => (new.contents = old.contents /\ fired' = 0)
                  /\ new.options = old.options
                  /\ Autosaveable(new) = Autosaveable(old)
                  /\ InitiallyDirty(new) = InitiallyDirty(old)
                  /\ UNCHANGED <<cache, reference, counters, saves, issued>>
    /\ ret'.op = "update" => \A c \in DOMAIN resources :
          /\ resources'[c].onSave = resources[c].onSave
          /\ resources'[c].options = resources[c].options
          /\ UNCHANGED <<cache, reference, counters, saves, issued>>

C15_UpdateIsPartialPatch == [][C15_Step]_vars

\* an update that replaced the payload of a writable holder registered with
\* autosaveable = false and initiallyDirty = true
C15_Witness ==
    /\ ret.op = "handleUpdate" /\ fired = 1
    /\ \E c \in DOMAIN resources :
          /\ Mapped(c) /\ resources[c].onSave # None /\ ~ReadOnly(resources[c])
          /\ resources[c].options.autosaveable = "false"
          /\ resources[c].options.initiallyDirty = "true"

\* C17: a holder registered without a field has, right after add, that
\* field's default: contents "", autosaveable true, initiallyDirty false,
\* and readOnly true; a new holder reports readOnly false only if a save
\* callback was given, reports readOnly true when readOnly = true was given
\* even with a callback, and without a given readOnly reports true exactly
\* when no callback was given.
C17_Step ==
    (ret'.op = "add" /\ ret'.result = "ok") => \A o \in FlagsInit :
        (cache["u1"] = NoHandle /\ Add("u1", o, MaxContentHolders)) =>
            LET res == resources'[reference'[ret'.handle]] IN
                /\ ret'.handle \in issued'
                /\ counters'[reference'[ret'.handle]].refs = 1
                /\ res.contents = IF o.contents = Undefined THEN StrPayload("") ELSE o.contents
                /\ Autosaveable(res) = (o.autosaveable # "false")
                /\ InitiallyDirty(res) = (o.initiallyDirty = "true")
                /\ ~ReadOnly(res) => o.onSave # None
                /\ o.readOnly = "true" => ReadOnly(res)
                /\ o.readOnly = None => (ReadOnly(res) = (o.onSave = None))
                /\ (o.contents = Undefined /\ o.onSave = None /\ o.readOnly = None
                        /\ o.autosaveable = None /\ o.initiallyDirty = None)
                      => (/\ res.contents = StrPayload("")
                          /\ Autosaveable(res) /\ ~InitiallyDirty(res) /\ ReadOnly(res))

C17_RegistrationDefaults == [][C17_Step]_vars

\* a holder just registered with no options at all
C17_Witness ==
    /\ ret.op = "add" /\ ret.result = "ok"
    /\ LET res == resources[reference[ret.handle]] IN
          /\ res.options = [onSave |-> None, readOnly |-> None,
                            autosaveable |-> None, initiallyDirty |-> None]
          /\ res.contents = StrPayload("")
          /\ ReadOnly(res) /\ Autosaveable(res) /\ ~InitiallyDirty(res)

\* C19: in every state a holder reports readOnly = false only if
\* saveContents on it would call a callback, and reports readOnly = true
\* whenever saveContents on it would do nothing.
C19_ReadOnlyAgreesWithSave ==
    \A c \in DOMAIN resources :
        /\ ~ReadOnly(resources[c]) => SaveCallback(resources[c]) # None
        /\ SaveCallback(resources[c]) = None => ReadOnly(resources[c])

\* C18: while some consumer holds a handle of a counter that it has not
\* disposed, the counter's resource is not disposed and the cache still maps
\* the key to it, whatever the other consumers dispose.
C18_NoPrematureDisposal ==
    \A c \in DOMAIN counters :
        (\E p \in Consumers : hist[c].holds[p] > 0)
            => (~resources[c].emitterDisposed /\ Mapped(c))

\* The counter c was torn down: its closure ran and its resource is disposed.
Stale(c) == resources[c].emitterDisposed

\* The step leaves the cache and every counter and resource other than c
\* as they were.
Isolated(c) ==
    /\ cache' = cache
    /\ \A d \in DOMAIN counters :
          d # c => (counters'[d] = counters[d] /\ resources'[d] = resources[d])

\* C20: add on an identifier whose entry was removed succeeds with a new
\* resource and a new counter of count 1; dispose, update and saveContents
\* on a handle of a counter that was torn down, and the settling of a save
\* started on one, leave the cache and the counter and resource of every
\* other holder as they were.
C20_Step ==
    /\ ret'.op = "add" => \A o \in ReuseInit :
          (cache["u1"] = NoHandle /\ Add("u1", o, MaxHolders)) =>
              /\ ret'.result = "ok" /\ ret'.handle \notin issued
              /\ cache'["u1"] = ret'.handle
              /\ reference'[ret'.handle] = Len(counters) + 1
              /\ counters'[Len(counters) + 1].refs = 1
              /\ ~resources'[Len(counters) + 1].emitterDisposed
              /\ \A d \in DOMAIN counters : counters'[d] = counters[d] /\ resources'[d] = resources[d]
    /\ ret'.op = "dispose" => \A h \in issued :
          (Stale(reference[h]) /\ HandleDispose(h)) => Isolated(reference[h])
    /\ ret'.op = "handleUpdate" => \A h \in issued, o \in ReuseUpdates :
          (Stale(reference[h]) /\ HandleUpdate(h, o)) => Isolated(reference[h])
    /\ ret'.op = "saveContents" => \A h \in issued :
          (Stale(reference[h]) /\ SaveContents(h, "a")) => Isolated(reference[h])
    /\ ret'.op = "saveDone" => \A i \in DOMAIN saves :
          (Stale(saves[i].res) /\ (SaveComplete(i) \/ SaveFail(i))) => Isolated(saves[i].res)

C20_ReRegistrationIsolated == [][C20_Step]_vars

\* a dispose on the handle of a torn-down holder that has also been written
\* to, next to the untouched holder registered after it
C20_Witness ==
    /\ ret.op = "dispose"
    /\ \E c, d \in DOMAIN counters :
          /\ c < d /\ counters[c].key = counters[d].key
          /\ Stale(c) /\ counters[c].refs < 0 /\ resources[c].contents = StrPayload("a")
          /\ Mapped(d) /\ counters[d].refs = 1 /\ resources[d].contents = StrPayload("")

\* The counter c has a save or a variable resolution under way.
Pending(c) ==
    \/ \E i \in DOMAIN saves : saves[i].res = c
    \/ \E h \in resolving : reference[h] = c

\* The key k has an entry in the cache m of the change-set resolver or in
\* the cache v of the variable resolver.
HasEntry(k, m, v) == IF k \in Keys THEN m[k] # NoHandle ELSE \E e \in v : e.key = k

\* C14: the dispose that takes the count of a holder from 1 to 0 while a
\* save or a variable resolution on it is under way disposes the resource
\* and removes the cache entry in that very step, and leaves the operation
\* pending; the step in which a save or resolution settles on a holder that
\* was torn down reaches no listener, adds no cache entry and creates no
\* object, and the resource stays disposed.
C14_Step ==
    /\ ret'.op = "dispose" => \A h \in issued :
          (counters[reference[h]].refs = 1 /\ Pending(reference[h]) /\ HandleDispose(h)) =>
              /\ resources'[reference[h]].emitterDisposed
              /\ ~HasEntry(counters[reference[h]].key, cache', varCache')
              /\ saves' = saves /\ resolving' = resolving
    /\ ret'.op \in {"saveDone", "resolved"} => \A c \in DOMAIN counters :
          (hist[c].teardowns > 0 /\ Pending(c) /\ ~Pending(c)') =>
              /\ Delivered(resources'[c], fired') = 0
              /\ resources'[c].emitterDisposed
              /\ cache' = cache /\ varCache' = varCache
              /\ Len(counters') = Len(counters) /\ Len(resources') = Len(resources)
              /\ counters' = counters

C14_DisposeWhilePending == [][C14_Step]_vars

\* a resolution that settled with a value on a variable holder torn down
\* before, while a save started on a torn-down change-set holder has settled
C14_Witness ==
    /\ ret.op = "resolved" /\ ret.result = "ok" /\ fired = 1
    /\ \E c, d \in DOMAIN counters :
          /\ counters[c].key \notin Keys /\ hist[c].teardowns = 1
          /\ resources[c].contents = StrPayload("a") /\ ~Pending(c)
          /\ counters[d].key \in Keys /\ hist[d].teardowns = 1
          /\ resources[d].contents = StrPayload("a") /\ ~Pending(d)

\* C21 as claimed: a resolution that completes with a value fires a change
\* notification.
C21_ResolvedValueAlwaysNotifies ==
    [][(ret'.op = "resolved" /\ ret'.result = "ok") => fired' = 1]_vars

\* C21 as amended: get() on a URI that is not cached creates a resource that
\* reports readOnly, has contents "" and a counter of count 1, caches it and
\* starts one resolution; the step in which the resolution fulfils with a
\* value stores the contextValue, or the value when the contextValue is
\* absent or empty, and fires once if that text differs from the contents
\* and not at all if it is equal; a resolution that fulfils with undefined
\* or rejects changes no contents and fires nothing.
C21_Step ==
    /\ ret'.op = "get" => \A r \in Requests, ctx \in Contexts :
          (VarLookup(VarUri(ToAuthority(ctx), r)) = {} /\ Get(r, ctx, MaxPendingHolders)) =>
              LET c == reference'[ret'.handle] IN
                  /\ ret'.result = "ok" /\ ret'.handle \notin issued
                  /\ c = Len(counters) + 1
                  /\ ReadOnly(resources'[c])
                  /\ resources'[c].contents = StrPayload("")
                  /\ counters'[c].refs = 1
                  /\ resolving' = resolving \cup {ret'.handle}
                  /\ varCache' = varCache \cup
                        {[key |-> VarUri(ToAuthority(ctx), r), handle |-> ret'.handle, context |-> ctx]}
                  /\ fired' = 0
    /\ ret'.op = "resolved" => \A h \in resolving :
          /\ \A v \in ResolvedValues : ResolutionYields(h, v) =>
                LET text == IF v.contextValue \in {None, ""} THEN v.value ELSE v.contextValue IN
                    /\ resources'[reference[h]].contents = StrPayload(text)
                    /\ fired' = IF resources[reference[h]].contents = StrPayload(text) THEN 0 ELSE 1
                    /\ resolving' = resolving \ {h}
          /\ \A r \in {"undefined", "error"} : ResolutionYieldsNothing(h, r) =>
                (resources' = resources /\ fired' = 0 /\ resolving' = resolving \ {h})

C21_GetExposesResolvedValue == [][C21_Step]_vars

\* a resolution that stored "a" in a live, still empty holder and fired
C21_Witness ==
    /\ ret.op = "resolved" /\ ret.result = "ok" /\ fired = 1
    /\ \E e \in varCache :
          /\ resources[reference[e.handle]].contents = StrPayload("a")
          /\ ReadOnly(resources[reference[e.handle]])
          /\ ~resources[reference[e.handle]].emitterDisposed
          /\ e.handle \notin resolving

\* The live cache entry made by a get() of request r in a context deep-equal
\* to ctx.
EntryOf(r, ctx) ==
    {e \in varCache : e.context = ctx /\ \E a \in Authorities : e.key = VarUri(a, r)}

\* C22: while the entry made by get(request, context) is cached, a get() with
\* the same request and a deep-equal context returns the cached resource
\* with its count incremented, and adds no cache entry, holder or resolution;
\* resolve(uri) on a cached URI does the same; resolve(uri) on a URI that is
\* not cached fails and changes nothing.
C22_Step ==
    /\ ret'.op = "get" => \A r \in Requests, ctx \in Contexts :
          (EntryOf(r, ctx) # {} /\ Get(r, ctx, MaxHolders)) =>
              \E e \in EntryOf(r, ctx) :
                  /\ ret'.result = "ok" /\ ret'.handle = e.handle
                  /\ counters' = [counters EXCEPT ![reference[e.handle]].refs = @ + 1]
                  /\ varCache' = varCache /\ resolving' = resolving
                  /\ resources' = resources /\ reference' = reference
                  /\ fired' = 0
    /\ ret'.op = "varResolve" => \A k \in VarKeys : VarResolve(k) =>
          IF \E e \in varCache : e.key = k
          THEN \E e \in varCache :
                  /\ e.key = k
                  /\ ret'.result = "ok" /\ ret'.handle = e.handle
                  /\ counters' = [counters EXCEPT ![reference[e.handle]].refs = @ + 1]
                  /\ varCache' = varCache /\ resolving' = resolving
                  /\ resources' = resources /\ reference' = reference
          ELSE /\ ret'.result = "error" /\ ret'.handle = NoHandle
               /\ varCache' = varCache /\ resolving' = resolving
               /\ resources' = resources /\ reference' = reference
               /\ counters' = counters

C22_CachedEntryIsShared == [][C22_Step]_vars

\* a second get() in the context c1 returned the resource of the first,
\* whose resolution had completed, while another request is cached for c1
C22_Witness ==
    /\ ret.op = "get" /\ ret.result = "ok"
    /\ \E e \in varCache :
          /\ e.handle = ret.handle /\ e.context = "c1"
          /\ counters[reference[e.handle]].refs = 2
          /\ e.handle \notin resolving
    /\ Cardinality({e \in varCache : e.context = "c1"}) = 2

\* C23: resolve() for the session-summary variable with an argument calls the
\* summary agent exactly when the session exists and either no summary is
\* cached for it or the cached entry's length differs from the session's
\* request count; otherwise it calls no agent and returns the cached
\* summary, also for a session that was deleted, or undefined when there is
\* none; for another variable id or without an argument it returns
\* undefined and calls no agent.
C23_Step ==
    ret'.op = "summary" => \A id \in VariableIds, arg \in SummaryArgs :
        SummaryResolve(id, arg) =>
            LET live == arg \in SessionIds /\ sessions[arg].state = "live"
                cached == IF arg \in SessionIds THEN summaries[arg] ELSE NoEntry
                needed == live /\ (cached = NoEntry \/ cached.length # sessions[arg].requests)
                agentCalled == Len(calls') = Len(calls) + 1
            IN  /\ summaries' = summaries
                /\ IF id # "session-summary" \/ arg = None
                   THEN ~agentCalled /\ ret'.result = "undefined"
                   ELSE /\ agentCalled <=> needed
                        /\ agentCalled => calls'[Len(calls')].arg = arg
                        /\ ~needed =>
                              IF cached # NoEntry /\ cached.summary.text # ""
                              THEN ret'.result = "ok" /\ ret'.value = cached.summary
                              ELSE ret'.result = "undefined"

C23_AgentCalledWhenNeeded == [][C23_Step]_vars

\* resolve() returned the cached summary of a session that was deleted
C23_Witness ==
    /\ ret.op = "summary" /\ ret.result = "ok"
    /\ sessions["s1"].state = "deleted"
    /\ summaries["s1"] # NoEntry /\ ret.value = summaries["s1"].summary
    /\ Len(calls) = 1

\* C24: every cached summary was generated from as many requests as the
\* length recorded with it.
C24_SummaryMatchesLength ==
    \A s \in SessionIds :
        summaries[s] # NoEntry => summaries[s].summary.from = summaries[s].length

\* C25: when the summary generation fails, for want of a language model, of
\* requests or of a prompt, or because the model request fails, resolve()
\* returns undefined and the summaries cache is what it was.
C25_Step ==
    ret'.op = "summaryFailed" => \A i \in DOMAIN calls :
        (LanguageModelMissing(i) \/ NoChatRequest(i) \/ PromptMissing(i) \/ ModelRequestFails(i)) =>
            /\ ret'.result = "undefined" /\ ret'.value = None
            /\ summaries' = summaries
            /\ calls'[i].pc = "done"

C25_FailureLeavesCache == [][C25_Step]_vars

\* a model request failed for a session whose earlier summary is cached
C25_Witness ==
    /\ ret.op = "summaryFailed"
    /\ summaries["s1"] # NoEntry /\ summaries["s1"].summary.text = "a"
    /\ summaries["s1"].length # sessions["s1"].requests

\* The variables of the results in a log of handler calls, concatenated in
\* the order of the calls.
RECURSIVE ConcatVariables(_)
ConcatVariables(log) ==
    IF log = <<>> THEN <<>>
    ELSE (IF Head(log).result.some THEN Head(log).result.variables ELSE <<>>)
             \o ConcatVariables(Tail(log))

\* The text of the first result in a log whose text is defined.
RECURSIVE FirstDefinedText(_)
FirstDefinedText(log) ==
    IF log = <<>> THEN None
    ELSE IF Head(log).result.some /\ Head(log).result.text # None THEN Head(log).result.text
    ELSE FirstDefinedText(Tail(log))

\* C26: getDropResult() calls a handler only while that handler is in the
\* handler set, so none that was removed before the call started and not
\* registered again; when the set did not change during the call, the
\* handlers called are those registered, each once, in registration order;
\* the variables returned are those of the handlers' results concatenated in
\* call order, and the text is that of the first result whose text is
\* defined, or undefined.
C26_Step ==
    /\ ret'.op = "drop" =>
          /\ ret'.value \in Range(dropHandlers) /\ dropHandlers' = dropHandlers
          /\ \A d \in DOMAIN drops' :
                (drops'[d].state = "awaiting" /\ drops'[d].stable) =>
                    /\ drops'[d].awaiting = drops'[d].at[Len(drops'[d].log) + 1]
                    /\ drops'[d].at = dropHandlers
    /\ (ret'.op = "dropResult" /\ ret'.result = "ok") =>
          /\ DropNothing => ret'.value = [variables |-> <<>>, text |-> None]
          /\ \A d \in DOMAIN drops : drops[d].state = "awaiting" =>
                \A r \in DropResults(drops[d].awaiting) : DropReturns(d, r) =>
                    LET log == Append(drops[d].log, [handler |-> drops[d].awaiting, result |-> r]) IN
                        /\ ret'.value.variables = ConcatVariables(log)
                        /\ ret'.value.text = FirstDefinedText(log)
                        /\ drops[d].stable =>
                              [i \in DOMAIN log |-> log[i].handler] = dropHandlers

C26_DropResultInOrder == [][C26_Step]_vars

\* a call over the handlers registered as h2, h1 that returned the
\* variables of both in that order and the text of the second result
C26_Witness ==
    /\ ret.op = "dropResult" /\ ret.result = "ok"
    /\ dropHandlers = <<"h2", "h1">>
    /\ ret.value = [variables |-> <<"h2", "h1">>, text |-> "h1"]

\* The claim's reading of a call: the 1-based positions of the trigger at or
\* before the cursor, the last of them, and the last separator likewise.
TriggerOf(c) == IF c.matchString = None THEN VariableChar ELSE c.matchString
PositionsOf(c, ch) == {i \in DOMAIN c.line : i <= c.column /\ c.line[i] = ch}
Last(S) == CHOOSE i \in S : \A j \in S : j <= i
SpaceBetween(c) ==
    \E j \in DOMAIN c.line :
        Last(PositionsOf(c, TriggerOf(c))) < j /\ j < c.column /\ c.line[j] = " "

\* C27: AIVariableCompletionContext.get returns undefined exactly when the
\* line has no trigger at or before the cursor or has a space between the
\* last such trigger and the cursor; otherwise the userInput is the text
\* between the later of that trigger and the last separator and the cursor,
\* and the prefix is the variable name with the separator when that
\* character is the trigger and empty when it is the separator.
C27_ContextOfCursor ==
    completion.out.called =>
        LET c == completion
            triggers == PositionsOf(c, TriggerOf(c))
            from == Last(triggers \cup PositionsOf(c, VariableSeparatorChar))
        IN  /\ ~c.out.defined <=> (triggers = {} \/ SpaceBetween(c))
            /\ c.out.defined =>
                  /\ c.out.userInput = SubSeq(c.line, from + 1, c.column - 1)
                  /\ c.out.prefix = IF c.line[from] = TriggerOf(c)
                                    THEN c.variableName \o VariableSeparatorChar ELSE ""

====
